---- MODULE Spec2Model ----
(***************************************************************************)
(* Model of DropboxForceDownload.cpp: a main thread that walks a directory *)
(* tree and pushes every regular file to a std::queue guarded by           *)
(* queue_mutex/cv, and a pool of worker threads that pop paths and read    *)
(* the first bytes of each file (processFile).                             *)
(*                                                                         *)
(* A directory is a sequence of entries [kind, sub]; the path of an entry  *)
(* is the sequence of indices leading to it from the root, so paths are    *)
(* never empty and are pairwise distinct.                                  *)
(***************************************************************************)
EXTENDS Integers, Sequences, FiniteSets, TLC

\* ------------------------------------------------------------------ bounds
\* Largest number of directory entries (files, sub-directories, others) in a tree.
MaxNodes == 2
\* Largest value std::thread::hardware_concurrency() reports (0 = unknown).
MaxHC == 2
\* Largest number of paths the pre-filled queue of the drain scenario holds.
MaxK == 2
\* Longest string given to the sanitizer in the sanitizer scenario.
MaxLen == 5

\* ------------------------------------------------------------ directory trees
FileEntry == [kind |-> "file", sub |-> <<>>]
OtherEntry == [kind |-> "other", sub |-> <<>>]
DirEntry(s) == [kind |-> "dir", sub |-> s]

RECURSIVE Forests(_)
\* Every directory content with exactly n entries below it, at any depth.
Forests(n) ==
    IF n = 0 THEN {<<>>}
    ELSE UNION { { <<e>> \o rest :
                     e \in (IF k = 1 THEN {FileEntry, OtherEntry} ELSE {})
                           \cup { DirEntry(s) : s \in Forests(k - 1) },
                     rest \in Forests(n - k) } : k \in 1..n }

Trees == UNION { Forests(n) : n \in 0..MaxNodes }

RECURSIVE DirAt(_, _)
\* The entries of the directory reached from `dir` by the index path p.
DirAt(dir, p) == IF p = <<>> THEN dir ELSE DirAt(dir[Head(p)].sub, Tail(p))

RECURSIVE RegularFilesUnder(_, _)
\* The paths of the regular files reachable from `dir`, whose own path is `prefix`.
RegularFilesUnder(dir, prefix) ==
    UNION { IF dir[i].kind = "file" THEN {prefix \o <<i>>}
            ELSE IF dir[i].kind = "dir"
                 THEN RegularFilesUnder(dir[i].sub, prefix \o <<i>>)
                 ELSE {} : i \in 1..Len(dir) }

\* ------------------------------------------------------------------ helpers
NoPath == <<>>
Main == 0
Free == -1
Workers == 1..MaxHC

Range(s) == { s[i] : i \in 1..Len(s) }
\* A multiset as a function from elements to positive counts.
EmptyBag == <<>>
BagPut(b, x) == IF x \in DOMAIN b THEN [b EXCEPT ![x] = @ + 1] ELSE b @@ (x :> 1)
BagCount(b, x) == IF x \in DOMAIN b THEN b[x] ELSE 0
Count(s, x) == Cardinality({ i \in 1..Len(s) : s[i] = x })

\* fs::path::empty()
IsEmptyPath(p) == p = NoPath

\* std::queue<fs::path>: push, front, pop, empty
QPush(q, p) == Append(q, p)
\* Mutant: front() hands out the newest element.
QFrontNewest(q) == q[Len(q)]
QFront(q) == Head(q)
\* Mutant: pop() leaves the element in the queue.
QPopKeeps(q) == q
QPop(q) == Tail(q)
QEmpty(q) == q = <<>>

\* ------------------------------------------------------- strings, replaceAll
\* A string is a sequence of one-character strings.
Sep == "\\"
\* The arguments of the call at line 33: "\\\\" and "\\".
From == <<Sep, Sep>>
To == <<Sep>>
npos == -1

\* std::string::find(from, pos): the first index >= pos (counted from 0) at
\* which `from` occurs in str, or npos.
Find(str, from, pos) ==
    LET hits == { i \in pos..(Len(str) - Len(from)) :
                    SubSeq(str, i + 1, i + Len(from)) = from }
    IN IF hits = {} THEN npos ELSE CHOOSE i \in hits : \A j \in hits : i <= j

\* std::string::replace(pos, n, to)
Replace(str, pos, n, to) ==
    SubSeq(str, 1, pos) \o to \o SubSeq(str, pos + n + 1, Len(str))

RECURSIVE replaceLoop(_, _, _, _)
\* lines 17-20: the while loop, entered with start_pos.
replaceLoop(str, from, to, start_pos) ==
    LET found == Find(str, from, start_pos)
    IN IF found = npos THEN str
       ELSE replaceLoop(Replace(str, found, Len(from), to), from, to, found + Len(to))

\* Mutant: only the first occurrence is replaced.
replaceFirst(str, from, to) ==
    LET found == Find(str, from, 0)
    IN IF found = npos THEN str ELSE Replace(str, found, Len(from), to)

\* lines 15-22
replaceAll(str, from, to) == replaceLoop(str, from, to, 0)

\* The root argument as typed, here with a doubled separator in it.
RootString == <<"r", Sep, Sep, "d">>

RECURSIVE PathString(_)
\* file_path.string(): the root followed by one component per directory level.
PathString(p) ==
    IF p = <<>> THEN RootString
    ELSE PathString(SubSeq(p, 1, Len(p) - 1)) \o <<Sep, ToString(p[Len(p)])>>

\* Every path a tree or a pre-filled queue within the bounds can hold.
Paths == UNION { [1..n -> 1..(MaxNodes + MaxK)] : n \in 0..MaxNodes }

RECURSIVE Text(_)
\* The characters of a string written out as one piece of text.
Text(str) == IF str = <<>> THEN "" ELSE Head(str) \o Text(Tail(str))

\* lines 32-35: the text shown for each path, path_str after replaceAll
Displayed == [p \in Paths |-> Text(replaceAll(PathString(p), From, To))]
Display(p) == Displayed[p]

VARIABLES
    tree,          \* the directory tree below the root argument
    root,          \* what argv[1] names: "dir", "file" or "missing"
    san,           \* the sanitizer scenario: input and results of replaceAll
    pcMain,        \* position of the main thread
    debug,         \* main: bool debug
    max_threads,   \* startDirectoryTraversal: int max_threads
    spawned,       \* number of threads emplaced in `workers`
    joined,        \* number of workers joined so far
    stack,         \* traverseDirectory's recursion: frames [path, i]
    files,         \* std::queue<fs::path> files
    done,          \* bool done
    queue_mutex,   \* holder of queue_mutex: Free, Main or a worker
    console_mutex, \* holder of console_mutex: Free or a worker
    cv,            \* the workers blocked inside cv.wait
    pc,            \* position of each worker thread
    file_path,     \* each worker's local fs::path file_path
    pushed,        \* history: every path pushed, in order
    popped,        \* history: every path popped, in order
    calls,         \* history: how often each path was passed to processFile
    opened,        \* history: the paths whose ifstream opened
    stdout,        \* lines written to std::cout
    stderr,        \* lines written to std::cerr
    walkFailed,    \* history: the walk threw a filesystem_error
    exit_code      \* main's return value, -1 while none

vars == <<tree, root, san, pcMain, debug, max_threads, spawned, joined, stack, files, done,
          queue_mutex, console_mutex, cv, pc, file_path, pushed, popped, calls,
          opened, stdout, stderr, walkFailed, exit_code>>

workerVars == <<pc, file_path, popped, calls, opened>>
\* What no thread of the program writes.
env == <<tree, root, san>>

\* The sanitizer scenario is not running.
SanIdle == [phase |-> "idle", input |-> <<>>, once |-> <<>>, twice |-> <<>>]

\* Mutant: the flag starts out set.
DoneStartsSet == TRUE

\* line 68: bool done = false
InitialDone == FALSE

\* The process at the start of main: nothing has run.
ProcessStart ==
    /\ pcMain = "main"
    /\ debug = FALSE
    /\ max_threads = 0
    /\ spawned = 0
    /\ joined = 0
    /\ stack = <<>>
    /\ files = <<>>
    /\ done = InitialDone
    /\ queue_mutex = Free
    /\ console_mutex = Free
    /\ cv = {}
    /\ pc = [w \in Workers |-> "unstarted"]
    /\ file_path = [w \in Workers |-> NoPath]
    /\ pushed = <<>>
    /\ popped = <<>>
    /\ calls = EmptyBag
    /\ opened = {}
    /\ stdout = <<>>
    /\ stderr = <<>>
    /\ walkFailed = FALSE
    /\ exit_code = -1

Init ==
    /\ root \in {"dir", "file", "missing"}
    /\ tree \in (IF root = "dir" THEN Trees ELSE {<<>>})
    /\ san = SanIdle
    /\ ProcessStart

\* The process is alive: main has neither returned nor been terminated.
Alive == pcMain \notin {"exited", "aborted"}

Line(k, a) == [kind |-> k, arg |-> a]

\* cv.notify_one(): one blocked worker, if any, leaves the wait set and must
\* re-acquire queue_mutex. The result is the set of possible (cv', pc') pairs.
NotifyOne(waiting, pcs) ==
    IF waiting = {} THEN {<<waiting, pcs>>}
    ELSE { <<waiting \ {w}, [pcs EXCEPT ![w] = "relock"]>> : w \in waiting }

\* Mutant: the shutdown broadcast wakes a single waiter.
NotifyAllWakesOne(waiting, pcs) == NotifyOne(waiting, pcs)

\* cv.notify_all(): every blocked worker leaves the wait set.
NotifyAll(waiting, pcs) ==
    {<<{}, [w \in DOMAIN pcs |-> IF w \in waiting THEN "relock" ELSE pcs[w]]>>}

\* Mutant: the lock is taken whoever holds it.
LockAlwaysGranted(m) == TRUE

\* std::mutex::lock returns once no thread holds the mutex.
CanLock(m) == m = Free

\* ------------------------------------------------------------------- main()
\* main, lines 116-122: argument count check and the debug flag.
Main_Args ==
    /\ pcMain = "main"
    /\ \E argc \in 1..4, argv2 \in {"debug", "other"} :
         IF argc < 2 \/ argc > 3
         THEN /\ stderr' = Append(stderr, Line("Usage", NoPath))
              /\ exit_code' = 1
              /\ pcMain' = "exited"
              /\ debug' = debug
         ELSE /\ debug' = (argc = 3 /\ argv2 = "debug")
              /\ pcMain' = "checkroot"
              /\ UNCHANGED <<stderr, exit_code>>
    /\ UNCHANGED <<env, max_threads, spawned, joined, stack, files, done, queue_mutex,
                   console_mutex, cv, pushed, stdout, walkFailed>>
    /\ UNCHANGED workerVars

\* Mutant: only existence is tested.
RootExists(r) == r # "missing"

\* line 124: fs::exists(dropbox_path) && fs::is_directory(dropbox_path)
ValidRoot(r) == r # "missing" /\ r = "dir"

\* main, lines 124-127: the root must exist and be a directory.
Main_CheckRoot ==
    /\ pcMain = "checkroot"
    /\ IF ~ValidRoot(root)
       THEN /\ stderr' = Append(stderr, Line("Invalid directory path", NoPath))
            /\ exit_code' = 1
            /\ pcMain' = "exited"
       ELSE /\ pcMain' = "hc"
            /\ UNCHANGED <<stderr, exit_code>>
    /\ UNCHANGED <<env, debug, max_threads, spawned, joined, stack, files, done,
                   queue_mutex, console_mutex, cv, pushed, stdout, walkFailed>>
    /\ UNCHANGED workerVars

\* startDirectoryTraversal, lines 88-91: the pool size is whatever
\* hardware_concurrency() reports, 0 included.
PoolSize(hc) == hc

\* Mutant: the thread count is printed whether or not debug is given.
ThreadsLineAlways(d, n) == <<Line("Threads", ToString(n))>>

\* lines 89-91: the "Threads: N" line, written with debug only.
ThreadsLine(d, n) == IF d THEN <<Line("Threads", ToString(n))>> ELSE <<>>

Start_Threads ==
    /\ pcMain = "hc"
    /\ \E hc \in 0..MaxHC :
         /\ max_threads' = PoolSize(hc)
         /\ stdout' = stdout \o ThreadsLine(debug, PoolSize(hc))
    /\ pcMain' = "spawn"
    /\ UNCHANGED <<env, debug, spawned, joined, stack, files, done, queue_mutex,
                   console_mutex, cv, pushed, stderr, walkFailed, exit_code>>
    /\ UNCHANGED workerVars

\* startDirectoryTraversal, lines 93-98: one loop iteration starts one worker;
\* after the loop traverseDirectory is called on the root.
Start_Spawn ==
    /\ pcMain = "spawn"
    /\ IF spawned < max_threads
       THEN /\ spawned' = spawned + 1
            /\ pc' = [pc EXCEPT ![spawned + 1] = "lock"]
            /\ UNCHANGED <<pcMain, stack>>
       ELSE /\ pcMain' = "walk_open"
            /\ stack' = <<[path |-> <<>>, i |-> 1]>>
            /\ UNCHANGED <<spawned, pc>>
    /\ UNCHANGED <<env, debug, max_threads, joined, files, done, queue_mutex,
                   console_mutex, cv, file_path, pushed, popped, calls, opened,
                   stdout, stderr, walkFailed, exit_code>>

\* ------------------------------------------------------- traverseDirectory
Top == stack[Len(stack)]
TopDir == DirAt(tree, Top.path)
Advance(st) == [st EXCEPT ![Len(st)].i = @ + 1]

\* line 50: fs::directory_iterator(directory_path) either opens the directory
\* or throws filesystem_error (permission denied, vanished; always, for a path
\* that is no directory).
Walk_Open ==
    /\ pcMain = "walk_open"
    /\ \E ok \in (IF root = "dir" THEN BOOLEAN ELSE {FALSE}) :
         IF ok THEN /\ pcMain' = "walk_iter"
                    /\ UNCHANGED walkFailed
               ELSE /\ pcMain' = "unwind"
                    /\ walkFailed' = TRUE
    /\ UNCHANGED <<env, debug, max_threads, spawned, joined, stack, files, done,
                   queue_mutex, console_mutex, cv, pushed, stdout, stderr, exit_code>>
    /\ UNCHANGED workerVars

\* The walker recurses into an entry of this kind (line 56).
Recurses(e) == e.kind = "dir"

\* Mutant: the end of any directory ends the whole walk.
AnyCallIsOutermost(st) == TRUE

\* The call that returns is the one made at line 98, not a recursive one (line 57).
OutermostCall(st) == Len(st) = 1

\* lines 50-59: one step of the range-for over the current directory.
Walk_Iter ==
    /\ pcMain = "walk_iter"
    /\ IF Top.i > Len(TopDir)
       THEN \* end of this directory: return to the caller
            IF OutermostCall(stack)
            THEN /\ stack' = <<>>
                 /\ pcMain' = "sig_lock"
            ELSE /\ stack' = Advance(SubSeq(stack, 1, Len(stack) - 1))
                 /\ UNCHANGED pcMain
       ELSE LET e == TopDir[Top.i] IN
            IF e.kind = "file"
            THEN /\ pcMain' = "push_lock"
                 /\ UNCHANGED stack
            ELSE IF Recurses(e)
            THEN /\ stack' = Append(stack, [path |-> Top.path \o <<Top.i>>, i |-> 1])
                 /\ pcMain' = "walk_open"
            ELSE /\ stack' = Advance(stack)
                 /\ UNCHANGED pcMain
    /\ UNCHANGED <<env, debug, max_threads, spawned, joined, files, done, queue_mutex,
                   console_mutex, cv, pushed, stdout, stderr, walkFailed, exit_code>>
    /\ UNCHANGED workerVars

\* line 52: std::unique_lock<std::mutex> lock(queue_mutex)
Walk_Lock ==
    /\ pcMain = "push_lock"
    /\ CanLock(queue_mutex)
    /\ queue_mutex' = Main
    /\ pcMain' = "push"
    /\ UNCHANGED <<env, debug, max_threads, spawned, joined, stack, files, done,
                   console_mutex, cv, pushed, stdout, stderr, walkFailed, exit_code>>
    /\ UNCHANGED workerVars

\* lines 53-55: files.push(entry.path()); cv.notify_one(); the lock is released
\* at the end of the block.
Walk_Push ==
    /\ pcMain = "push"
    /\ LET p == Top.path \o <<Top.i>> IN
         /\ files' = QPush(files, p)
         /\ pushed' = Append(pushed, p)
    /\ \E n \in NotifyOne(cv, pc) : cv' = n[1] /\ pc' = n[2]
    /\ queue_mutex' = Free
    /\ stack' = Advance(stack)
    /\ pcMain' = "walk_iter"
    /\ UNCHANGED <<env, debug, max_threads, spawned, joined, done, console_mutex,
                   file_path, popped, calls, opened, stdout, stderr, walkFailed,
                   exit_code>>

\* ------------------------------------------- startDirectoryTraversal, end
\* line 102: std::unique_lock<std::mutex> lock(queue_mutex)
Signal_Lock ==
    /\ pcMain = "sig_lock"
    /\ CanLock(queue_mutex)
    /\ queue_mutex' = Main
    /\ pcMain' = "sig_set"
    /\ UNCHANGED <<env, debug, max_threads, spawned, joined, stack, files, done,
                   console_mutex, cv, pushed, stdout, stderr, walkFailed, exit_code>>
    /\ UNCHANGED workerVars

\* lines 103-105: done = true; cv.notify_all(); the lock is released.
Signal_Done ==
    /\ pcMain = "sig_set"
    /\ done' = TRUE
    /\ \E n \in NotifyAll(cv, pc) : cv' = n[1] /\ pc' = n[2]
    /\ queue_mutex' = Free
    /\ pcMain' = "join"
    /\ UNCHANGED <<env, debug, max_threads, spawned, joined, stack, files,
                   console_mutex, file_path, pushed, popped, calls, opened, stdout,
                   stderr, walkFailed, exit_code>>

\* Mutant: the threads are not waited for.
JoinWithoutWaiting(w) == TRUE

\* worker.join() returns once that thread has left its function.
Joinable(w) == pc[w] = "exited"

\* lines 108-111 and main line 141: join the workers in order, then return 0.
Join ==
    /\ pcMain = "join"
    /\ IF joined < spawned
       THEN /\ Joinable(joined + 1)
            /\ joined' = joined + 1
            /\ UNCHANGED <<pcMain, exit_code>>
       ELSE /\ pcMain' = "exited"
            /\ exit_code' = 0
            /\ UNCHANGED joined
    /\ UNCHANGED <<env, debug, max_threads, spawned, stack, files, done, queue_mutex,
                   console_mutex, cv, pushed, stdout, stderr, walkFailed>>
    /\ UNCHANGED workerVars

\* The filesystem_error leaves startDirectoryTraversal: its locals are destroyed.
\* Destroying `workers` (line 64) while a std::thread in it is joinable calls
\* std::terminate; with no thread in it the exception reaches main's handler
\* (lines 132-135).
Unwind ==
    /\ pcMain = "unwind"
    /\ IF spawned > 0
       THEN /\ pcMain' = "aborted"
            /\ UNCHANGED <<stderr, exit_code>>
       ELSE /\ stderr' = Append(stderr, Line("Filesystem error", NoPath))
            /\ exit_code' = 1
            /\ pcMain' = "exited"
    /\ UNCHANGED <<env, debug, max_threads, spawned, joined, stack, files, done,
                   queue_mutex, console_mutex, cv, pushed, stdout, walkFailed>>
    /\ UNCHANGED workerVars

\* ------------------------------------------------------------ worker lambda
\* line 75: std::unique_lock<std::mutex> lock(queue_mutex)
Worker_Lock(w) ==
    /\ Alive
    /\ pc[w] = "lock"
    /\ CanLock(queue_mutex)
    /\ queue_mutex' = w
    /\ pc' = [pc EXCEPT ![w] = "wait"]
    /\ UNCHANGED <<env, pcMain, debug, max_threads, spawned, joined, stack, files,
                   done, console_mutex, cv, file_path, pushed, popped, calls, opened,
                   stdout, stderr, walkFailed, exit_code>>

\* Mutant: the predicate ignores the shutdown flag.
WaitForWorkOnly == ~QEmpty(files)

\* line 76: the predicate of cv.wait
WaitPredicate == ~QEmpty(files) \/ done

\* line 76: cv.wait(lock, pred) evaluates the predicate holding the mutex; if it
\* is false the thread releases the mutex and blocks, atomically.
Worker_Wait(w) ==
    /\ Alive
    /\ pc[w] = "wait"
    /\ IF WaitPredicate
       THEN /\ pc' = [pc EXCEPT ![w] = "check"]
            /\ UNCHANGED <<queue_mutex, cv>>
       ELSE /\ pc' = [pc EXCEPT ![w] = "blocked"]
            /\ cv' = cv \cup {w}
            /\ queue_mutex' = Free
    /\ UNCHANGED <<env, pcMain, debug, max_threads, spawned, joined, stack, files,
                   done, console_mutex, file_path, pushed, popped, calls, opened,
                   stdout, stderr, walkFailed, exit_code>>

\* A blocked thread may wake without a notification (spurious wakeup).
Worker_Spurious(w) ==
    /\ Alive
    /\ pc[w] = "blocked"
    /\ w \in cv
    /\ cv' = cv \ {w}
    /\ pc' = [pc EXCEPT ![w] = "relock"]
    /\ UNCHANGED <<env, pcMain, debug, max_threads, spawned, joined, stack, files,
                   done, queue_mutex, console_mutex, file_path, pushed, popped, calls,
                   opened, stdout, stderr, walkFailed, exit_code>>

\* A woken thread re-acquires the mutex inside cv.wait and tests the predicate again.
Worker_Relock(w) ==
    /\ Alive
    /\ pc[w] = "relock"
    /\ CanLock(queue_mutex)
    /\ queue_mutex' = w
    /\ pc' = [pc EXCEPT ![w] = "wait"]
    /\ UNCHANGED <<env, pcMain, debug, max_threads, spawned, joined, stack, files,
                   done, console_mutex, cv, file_path, pushed, popped, calls, opened,
                   stdout, stderr, walkFailed, exit_code>>

\* Mutant: the loop ends on the flag alone.
ExitOnDoneAlone == done

\* line 77: the condition under which the worker leaves its loop
ExitCondition == done /\ QEmpty(files)

\* Mutant: the lock lives as long as the loop body and is held during processFile.
LockKeptByWorker(w) == w

\* line 82: the block holding the unique_lock ends; queue_mutex is released.
LockAfterBlock(w) == Free

\* lines 77-82: break, or take the front path; either way the lock is released
\* at the end of the block.
Worker_Take(w) ==
    /\ Alive
    /\ pc[w] = "check"
    /\ IF ExitCondition
       THEN /\ pc' = [pc EXCEPT ![w] = "exited"]
            /\ UNCHANGED <<files, file_path, popped>>
       ELSE /\ file_path' = [file_path EXCEPT ![w] = QFront(files)]
            /\ popped' = Append(popped, QFront(files))
            /\ files' = QPop(files)
            /\ pc' = [pc EXCEPT ![w] = "process"]
    /\ queue_mutex' = LockAfterBlock(w)
    /\ UNCHANGED <<env, pcMain, debug, max_threads, spawned, joined, stack, done,
                   console_mutex, cv, pushed, calls, opened, stdout, stderr,
                   walkFailed, exit_code>>

\* ------------------------------------------------------------- processFile
\* lines 83, 26-31: the call, the empty-path check and the debug test.
Process_Enter(w) ==
    /\ Alive
    /\ pc[w] = "process"
    /\ calls' = BagPut(calls, file_path[w])
    /\ IF IsEmptyPath(file_path[w])
       THEN /\ stderr' = Append(stderr, Line("Encountered an empty file path.", NoPath))
            /\ pc' = [pc EXCEPT ![w] = "lock"]
       ELSE /\ pc' = [pc EXCEPT ![w] = IF debug THEN "console_lock" ELSE "open"]
            /\ UNCHANGED stderr
    /\ UNCHANGED <<env, pcMain, debug, max_threads, spawned, joined, stack, files,
                   done, queue_mutex, console_mutex, cv, file_path, pushed, popped,
                   opened, stdout, walkFailed, exit_code>>

\* line 34: std::lock_guard<std::mutex> guard(console_mutex)
Process_ConsoleLock(w) ==
    /\ Alive
    /\ pc[w] = "console_lock"
    /\ CanLock(console_mutex)
    /\ console_mutex' = w
    /\ pc' = [pc EXCEPT ![w] = "print"]
    /\ UNCHANGED <<env, pcMain, debug, max_threads, spawned, joined, stack, files,
                   done, queue_mutex, cv, file_path, pushed, popped, calls, opened,
                   stdout, stderr, walkFailed, exit_code>>

\* Mutant: the guard lives until processFile returns and is held during file I/O.
GuardKept(w) == w

\* line 36: the if block holding the lock_guard ends; console_mutex is released.
GuardAfterBlock(w) == Free

\* lines 32-36: the path is sanitized, the debug line is written, then the guard
\* is released.
Process_Print(w) ==
    /\ Alive
    /\ pc[w] = "print"
    /\ stdout' = Append(stdout, Line("Downloading file", Display(file_path[w])))
    /\ console_mutex' = GuardAfterBlock(w)
    /\ pc' = [pc EXCEPT ![w] = "open"]
    /\ UNCHANGED <<env, pcMain, debug, max_threads, spawned, joined, stack, files,
                   done, queue_mutex, cv, file_path, pushed, popped, calls, opened,
                   stderr, walkFailed, exit_code>>

\* Mutant: a failed open ends the worker thread.
OpenFailureEndsWorker == "exited"

\* lines 43-46: after the error line processFile returns normally and the worker
\* goes on with the next iteration of its loop.
AfterOpenFailure == "lock"

\* lines 38-45: the ifstream opens, and 1 KB is read, or it does not, and the
\* failure is reported; processFile returns and the worker loops, where line 73
\* declares a fresh, empty file_path.
Process_Open(w) ==
    /\ Alive
    /\ pc[w] = "open"
    /\ \E is_open \in BOOLEAN :
         IF is_open
         THEN /\ opened' = opened \cup {file_path[w]}
              /\ pc' = [pc EXCEPT ![w] = "lock"]
              /\ UNCHANGED stderr
         ELSE /\ stderr' = Append(stderr, Line("Unable to open file", file_path[w]))
              /\ pc' = [pc EXCEPT ![w] = AfterOpenFailure]
              /\ UNCHANGED opened
    /\ file_path' = [file_path EXCEPT ![w] = NoPath]
    /\ UNCHANGED <<env, pcMain, debug, max_threads, spawned, joined, stack, files,
                   done, queue_mutex, console_mutex, cv, pushed, popped, calls, stdout,
                   walkFailed, exit_code>>

Worker(w) ==
    \/ Worker_Lock(w)
    \/ Worker_Wait(w)
    \/ Worker_Relock(w)
    \/ Worker_Take(w)
    \/ Process_Enter(w)
    \/ Process_ConsoleLock(w)
    \/ Process_Print(w)
    \/ Process_Open(w)

MainThread ==
    \/ Main_Args
    \/ Main_CheckRoot
    \/ Start_Threads
    \/ Start_Spawn
    \/ Walk_Open
    \/ Walk_Iter
    \/ Walk_Lock
    \/ Walk_Push
    \/ Signal_Lock
    \/ Signal_Done
    \/ Join
    \/ Unwind

Next ==
    \/ MainThread
    \/ \E w \in Workers : Worker(w)
    \/ \E w \in Workers : Worker_Spurious(w)

Spec == Init /\ [][Next]_vars

\* Every runnable thread keeps being scheduled; a spurious wakeup is never owed.
Fairness == WF_vars(MainThread) /\ \A w \in Workers : WF_vars(Worker(w))

FairSpec == Spec /\ Fairness

\* ------------------------------------------------------- the drain scenario
\* The program right after line 105 when no worker has run yet: K paths were
\* pushed by the walk of a directory of K regular files, done is set, and the
\* N workers started at lines 93-95 are about to take the lock for the first time.
DrainInit ==
    \E k \in 0..MaxK, n \in 1..MaxHC, d \in BOOLEAN :
        /\ tree = [i \in 1..k |-> FileEntry]
        /\ root = "dir"
        /\ san = SanIdle
        /\ pcMain = "join"
        /\ debug = d
        /\ max_threads = n
        /\ spawned = n
        /\ joined = 0
        /\ stack = <<>>
        /\ files = [i \in 1..k |-> <<i>>]
        /\ done = TRUE
        /\ queue_mutex = Free
        /\ console_mutex = Free
        /\ cv = {}
        /\ pc = [w \in Workers |-> IF w <= n THEN "lock" ELSE "unstarted"]
        /\ file_path = [w \in Workers |-> NoPath]
        /\ pushed = [i \in 1..k |-> <<i>>]
        /\ popped = <<>>
        /\ calls = EmptyBag
        /\ opened = {}
        /\ stdout = ThreadsLine(d, n)
        /\ stderr = <<>>
        /\ walkFailed = FALSE
        /\ exit_code = -1

\* With done set nothing ever blocks, so no thread is woken or re-locks.
DrainWorker(w) ==
    \/ Worker_Lock(w)
    \/ Worker_Wait(w)
    \/ Worker_Take(w)
    \/ Process_Enter(w)
    \/ Process_ConsoleLock(w)
    \/ Process_Print(w)
    \/ Process_Open(w)

DrainNext ==
    \/ Join
    \/ \E w \in Workers : DrainWorker(w)

DrainSpec == DrainInit /\ [][DrainNext]_vars

DrainFairSpec == DrainSpec /\ WF_vars(Join) /\ \A w \in Workers : WF_vars(DrainWorker(w))

\* --------------------------------------------------- the sanitizer scenario
\* replaceAll as processFile calls it (line 33), applied to its own result.
sanitize(str) == replaceAll(str, From, To)

Alphabet == {Sep, "a"}
Strings == UNION { [1..n -> Alphabet] : n \in 0..MaxLen }

progVars == <<tree, root, pcMain, debug, max_threads, spawned, joined, stack, files,
              done, queue_mutex, console_mutex, cv, pc, file_path, pushed, popped,
              calls, opened, stdout, stderr, walkFailed, exit_code>>

SanInit ==
    /\ san \in { [phase |-> "input", input |-> str, once |-> <<>>, twice |-> <<>>] :
                   str \in Strings }
    /\ root = "dir"
    /\ tree = <<>>
    /\ ProcessStart

San_Once ==
    /\ san.phase = "input"
    /\ san' = [san EXCEPT !.phase = "once", !.once = sanitize(san.input)]
    /\ UNCHANGED progVars

San_Twice ==
    /\ san.phase = "once"
    /\ san' = [san EXCEPT !.phase = "twice", !.twice = sanitize(san.once)]
    /\ UNCHANGED progVars

SanNext == San_Once \/ San_Twice

SanitizeSpec == SanInit /\ [][SanNext]_vars

\* ----------------------------------------------------------------- claims
AllFiles == RegularFilesUnder(tree, <<>>)
Started == 1..spawned
AllExited == \A w \in Started : pc[w] = "exited"
Returned == pcMain = "exited" /\ exit_code = 0
NoDuplicates(s) == \A i, j \in 1..Len(s) : s[i] = s[j] => i = j
Said(out, k, a) == Line(k, a) \in Range(out)

\* C1: when startDirectoryTraversal has returned, every regular file of the tree
\* was pushed exactly once and passed to processFile exactly once, whatever the
\* pool size.
C1_EveryFileOnce ==
    Returned =>
        \A f \in AllFiles : Count(pushed, f) = 1 /\ BagCount(calls, f) = 1

\* C2: when the walk failed with workers running and the process has ended, done
\* was set, every worker left its loop with the queue drained, the error was
\* reported and the exit code is 1.
C2_WalkErrorShutsDown ==
    (walkFailed /\ spawned > 0 /\ ~Alive) =>
        /\ done
        /\ AllExited
        /\ QEmpty(files)
        /\ Said(stderr, "Filesystem error", NoPath)
        /\ pcMain = "exited"
        /\ exit_code = 1

\* C3: once done is set (and the broadcast sent), every started worker
\* eventually leaves its loop.
C3_NoLostWakeup == done ~> AllExited

\* A worker that blocked on the empty queue before done was set has been woken
\* by the broadcast and has not yet re-acquired the lock.
C3_Witness ==
    /\ done
    /\ QEmpty(files)
    /\ pushed = <<>>
    /\ \A w \in Started : pc[w] = "relock"
    /\ spawned >= 2

\* C4: once the pool is sized, the number of workers is positive.
C4_PoolPositive ==
    pcMain \in {"spawn", "walk_open", "walk_iter", "push_lock", "push", "sig_lock",
                "sig_set", "join", "unwind", "aborted"}
        => max_threads >= 1

\* C5: the run is reported complete (main returns 0) only when every spawned
\* worker has returned from its loop.
C5_JoinBeforeComplete == Returned => (joined = spawned /\ AllExited)

C5_Witness == Returned /\ spawned >= 2 /\ Len(popped) >= 2

\* C6: the paths leave the queue in the order the walker pushed them: what was
\* popped, followed by what is still queued, is what was pushed.
C6_Fifo == popped \o files = pushed

C6_Witness ==
    /\ Len(popped) >= 2
    /\ files = <<>>
    /\ \E w \in Started : pc[w] = "process" /\ file_path[w] = pushed[Len(pushed)]

\* C7: no path is returned by more than one dequeue, and no two workers hold the
\* same dequeued path.
C7_DequeuedOnce ==
    /\ NoDuplicates(popped)
    /\ \A v, w \in Started :
         (v # w /\ file_path[v] # NoPath) => file_path[v] # file_path[w]

C7_Witness ==
    \E v, w \in Started :
        /\ v # w
        /\ file_path[v] # NoPath
        /\ file_path[w] # NoPath

\* C8: a worker that has left its loop did so with done true and the queue
\* empty, and both still hold.
C8_ExitOnlyWhenDrained ==
    \A w \in Started : pc[w] = "exited" => (done /\ QEmpty(files))

C8_Witness ==
    /\ \E w \in Started : pc[w] = "exited"
    /\ \E w \in Started : pc[w] \notin {"exited", "lock"}
    /\ Len(popped) >= 1

\* C9: from a queue of K paths with done already set, the workers never dequeue
\* more than K paths, and they end up all terminated with exactly K dequeues.
C9_DrainExactlyK ==
    /\ [](Len(popped) <= Len(pushed))
    /\ <>[](AllExited /\ Len(popped) = Len(pushed) /\ NoDuplicates(popped))

C9_Witness == AllExited /\ Len(popped) >= 2 /\ spawned >= 2 /\ pcMain = "exited"

\* C10: with debug enabled, a file whose open failed has an 'Unable to open
\* file' error and no 'Downloading file' line.
C10_DownloadingOnlyIfOpened ==
    debug =>
        \A l \in Range(stderr) :
            l.kind = "Unable to open file" =>
                ~Said(stdout, "Downloading file", Display(l.arg))

OpenFailures == { stderr[i].arg : i \in { j \in 1..Len(stderr) :
                                          stderr[j].kind = "Unable to open file" } }
UsageError == Said(stderr, "Usage", NoPath)

\* C11: in a finished run whose walk did not fail and in which some open failed,
\* the process exited with 0, every file of the tree was passed to processFile
\* exactly once (no retry, nothing skipped), each file either opened or was
\* reported exactly once, and every worker left its loop normally.
C11_OpenFailureIsLocal ==
    (OpenFailures # {} /\ ~Alive /\ ~walkFailed) =>
        /\ Returned
        /\ AllExited
        /\ OpenFailures \subseteq AllFiles
        /\ \A f \in AllFiles :
             /\ BagCount(calls, f) = 1
             /\ (f \in opened) # (f \in OpenFailures)
             /\ Count(stderr, Line("Unable to open file", f)) =
                    (IF f \in OpenFailures THEN 1 ELSE 0)

\* The single worker failed to open the first file and went on to open the second.
C11_Witness ==
    /\ Returned
    /\ spawned = 1
    /\ OpenFailures = {<<1>>}
    /\ opened = {<<2>>}

\* The run is over and was a traversal of an empty root that enumerated cleanly.
EmptyRootRunOver ==
    root = "dir" /\ tree = <<>> /\ ~Alive /\ ~UsageError /\ ~walkFailed

\* C12 (as claimed): for an empty root, with or without debug, no file is
\* touched, stdout is empty, all workers terminated and the exit code is 0.
C12_EmptyRootSilent ==
    EmptyRootRunOver =>
        /\ Returned
        /\ AllExited
        /\ calls = EmptyBag
        /\ opened = {}
        /\ stdout = <<>>

\* C12 (amended): for an empty root no file is touched, all workers terminated,
\* the exit code is 0, and stdout is empty without debug and holds exactly the
\* "Threads: N" line with debug.
C12_EmptyRootOnlyThreadsLine ==
    EmptyRootRunOver =>
        /\ Returned
        /\ AllExited
        /\ calls = EmptyBag
        /\ opened = {}
        /\ stdout = (IF debug THEN <<Line("Threads", ToString(max_threads))>>
                     ELSE <<>>)

C12_Witness == EmptyRootRunOver /\ debug /\ spawned >= 2 /\ Len(stdout) = 1

\* C13: when the root is missing or no directory (and the argument count was
\* accepted), the invalid-path error is reported and the exit code is 1; no
\* worker is ever spawned, nothing is enqueued and no file is touched.
C13_InvalidRootNoTraversal ==
    root # "dir" =>
        /\ spawned = 0 /\ max_threads = 0
        /\ pushed = <<>> /\ files = <<>>
        /\ calls = EmptyBag /\ opened = {}
        /\ pcMain \in {"main", "checkroot", "exited"}
        /\ (pcMain = "exited" /\ ~UsageError) =>
               (exit_code = 1 /\ Said(stderr, "Invalid directory path", NoPath))

C13_Witness ==
    /\ root = "file"
    /\ pcMain = "exited"
    /\ exit_code = 1
    /\ stderr = <<Line("Invalid directory path", NoPath)>>

\* The string has k separators in a row somewhere.
HasRun(str, k) ==
    \E i \in 1..(Len(str) - k + 1) : \A j \in i..(i + k - 1) : str[j] = Sep

\* C14 (as claimed): sanitize(sanitize(s)) = sanitize(s) for every input s.
C14_Idempotent == san.phase = "twice" => san.twice = san.once

\* C14 (amended): sanitize(sanitize(s)) = sanitize(s) for every input s that has
\* no run of three or more separators.
C14_IdempotentShortRuns ==
    (san.phase = "twice" /\ ~HasRun(san.input, 3)) => san.twice = san.once

\* Two doubled separators were collapsed and the second pass had nothing to do.
C14_Witness ==
    /\ san.phase = "twice"
    /\ san.input = <<Sep, Sep, "a", Sep, Sep>>
    /\ san.once = <<Sep, "a", Sep>>
    /\ san.twice = san.once

\* C15: whenever done is true the walk is over (traverseDirectory has returned
\* and every regular file has been pushed), and no step taken with done true
\* pushes anything.
C15_DoneAfterWalk ==
    /\ [](done => /\ pcMain \in {"join", "exited"}
                  /\ stack = <<>>
                  /\ Range(pushed) = AllFiles)
    /\ [][done => pushed' = pushed]_vars

C15_Witness == done /\ Len(files) >= 1 /\ Len(popped) >= 1 /\ pcMain = "join"

\* C16: done is false until the main thread reaches line 103, and once true it
\* is true in every later state.
C16_DoneWriteOnce ==
    /\ [](pcMain \in {"main", "checkroot", "hc", "spawn", "walk_open", "walk_iter",
                      "push_lock", "push", "sig_lock", "sig_set", "unwind", "aborted"}
             => ~done)
    /\ [][done => done']_vars

C16_Witness == done /\ pcMain = "exited" /\ spawned >= 1 /\ Len(popped) >= 1

\* The threads inside a critical section of queue_mutex.
QueueHolders ==
    { w \in Workers : pc[w] \in {"wait", "check"} }
        \cup (IF pcMain \in {"push", "sig_set"} THEN {Main} ELSE {})

\* C17: the threads inside a queue_mutex section are exactly the (at most one)
\* holder of queue_mutex; a push and the write of done are steps of the main
\* thread holding it, and a pop is a step of the worker holding it.
C17_QueueUnderMutex ==
    /\ [](QueueHolders = IF queue_mutex = Free THEN {} ELSE {queue_mutex})
    /\ [][/\ (Len(files') > Len(files) \/ done' # done) => queue_mutex = Main
          /\ (files' # files /\ Len(files') <= Len(files)) =>
                 \E w \in Workers : queue_mutex = w /\ pc[w] = "check" /\ pc'[w] = "process"
       ]_vars

\* The walker holds the lock for a push while one worker waits for it and the
\* other is about to test the predicate again after a wakeup.
C17_Witness ==
    /\ queue_mutex = Main
    /\ pcMain = "push"
    /\ \E v, w \in Started : pc[v] = "lock" /\ pc[w] = "relock"

\* C18: the workers writing a debug line are exactly the (at most one) holder of
\* console_mutex; in particular no worker opening or reading a file holds it.
C18_ConsoleLockOnlyWhileWriting ==
    { w \in Workers : pc[w] = "print" } =
        (IF console_mutex = Free THEN {} ELSE {console_mutex})

C18_Witness ==
    \E v, w \in Started :
        /\ pc[v] = "print" /\ console_mutex = v
        /\ pc[w] = "console_lock"

\* C19: with at least one worker, no path is left in the queue when the process
\* has ended: whatever was queued was eventually dequeued.
C19_NoStrandedWork == (spawned >= 1 /\ ~Alive) => QEmpty(files)

\* C20: no thread holds both mutexes, and a worker inside processFile does not
\* hold queue_mutex.
C20_LocksNeverNested ==
    /\ console_mutex # Main
    /\ \A w \in Workers :
         /\ ~(queue_mutex = w /\ console_mutex = w)
         /\ pc[w] \in {"process", "console_lock", "print", "open"} => queue_mutex # w

\* A worker writes its debug line while the walker holds queue_mutex for a push.
C20_Witness ==
    /\ queue_mutex = Main
    /\ pcMain = "push"
    /\ \E w \in Started : pc[w] = "print" /\ console_mutex = w
====
